---- MODULE Spec2Model ----
(***************************************************************************)
(* The device pool executor of onnx-web (api/onnx_web/worker): the         *)
(* DevicePoolExecutor of pool.py, the WorkerContext of context.py and the  *)
(* per-device worker loop, as one state machine.                           *)
(*                                                                         *)
(* A job key and a device name are strings.  A device index is 0-based, as *)
(* in the Python source; Device(i) is self.devices[i].device.              *)
(***************************************************************************)
EXTENDS Integers, Sequences, FiniteSets, TLC

(* ------------------------------ bounds -------------------------------- *)

\* len(self.devices): the pool is built over this many devices
NumDevices == 2
\* number of distinct job keys callers ever submit (keys are unique)
NumKeys == 3
\* a job function calls its progress callback at most this many times
MaxSteps == 2
\* number of calls of cancel() and join() by callers, and of worker processes
\* the operating system kills, in one run (submit() is bounded by NumKeys)
MaxEvents == 1

\* constructor parameters of the pool
max_jobs_per_worker == 2
max_pending_per_worker == 2
\* the history bound the specification names (the source has none)
finished_limit == 2

(* ------------------------------ names --------------------------------- *)

DeviceNames == <<"d0", "d1", "d2", "d3">>
KeyNames == <<"j1", "j2", "j3", "j4", "j5">>

\* The pools explored: a pool of one device whose jobs report progress, and a
\* pool of NumDevices devices whose jobs report none
Configs ==
    {[devices |-> SubSeq(DeviceNames, 1, 1), steps |-> MaxSteps],
     [devices |-> SubSeq(DeviceNames, 1, NumDevices), steps |-> 0]}
Keys == {KeyNames[i] : i \in 1..NumKeys}
KeyNo(k) == CHOOSE i \in 1..Len(KeyNames) : KeyNames[i] = k

\* needs_device: None, a device of the pool, or a device the pool lacks
NoPin == "None"
UnknownPin == "dx"

NoDev == "-"
NoKey == "-"
NoQ == 0 - 1
\* the result of a call that raised KeyError
KeyError == 0 - 1

VARIABLES
    devices,         \* self.devices, as the list of device names
    maxSteps,        \* how often a job function of this run calls its callback
    queues,          \* queues[d][g]: the entries of the g-th Queue made for device d
    pendingRef,      \* self.pending: device -> the Queue it names (NoQ: no entry)
    procs,           \* procs[d]: every worker Process made for d; the last is self.workers[d]
    total_jobs,      \* self.total_jobs
    active_jobs,     \* self.active_jobs: key -> <<device, progress>>
    active_keys,     \* the keys of self.active_jobs in the dict's (insertion) order
    cancelled_jobs,  \* self.cancelled_jobs (a list)
    finished_jobs,   \* self.finished_jobs: list of <<key, progress, cancel>>
    progress,        \* self.progress: stream of <<job, device, value>>
    finished,        \* self.finished: stream of <<job, device>>
    joins,           \* number of join() calls so far
    threads,         \* self.threads: the fans that have not left their loop
    nextKey,         \* index of the next key a caller submits
    events,          \* number of cancel and join calls and process deaths
    emitAfterCancel, \* keys that pushed a progress record after cancel(key)
    rejected,        \* keys whose submit() raised queue.Full
    taken,           \* taken[d][g]: how many entries the live process g of d has
                     \* taken from its queue so far
    orphans,         \* keys of the jobs that had called their callback and whose
                     \* finished record was not pushed when their process died
    last             \* the step taken last

vars == <<devices, maxSteps, queues, pendingRef, procs, total_jobs, active_jobs,
          active_keys, cancelled_jobs, finished_jobs, progress, finished, joins, threads, nextKey,
          events, emitAfterCancel, rejected, taken, orphans, last>>

\* the constructor's arguments and the job functions do not change
params == <<devices, maxSteps>>

Devs == {devices[i] : i \in 1..Len(devices)}
DevIdx == 0..(Len(devices) - 1)
Device(i) == devices[i + 1]
Pins == {NoPin, UnknownPin} \cup Devs

(* --------------------------- small helpers ---------------------------- *)

Min(S) == CHOOSE x \in S : \A y \in S : x <= y
Last(s) == s[Len(s)]
SeqSet(s) == {s[i] : i \in 1..Len(s)}

Label(op, key, pin, dev, res) ==
    [op |-> op, key |-> key, pin |-> pin, dev |-> dev, res |-> res]

\* self.workers[d] / self.context[d]: the newest process of d and its context
Cur(d) == Last(procs[d])
\* name in self.pending
HasQueue(d) == pendingRef[d] # NoQ
\* self.pending[d], read as the list of queued keys
Pending(d) == queues[d][pendingRef[d]]
\* the streams are closed once join() ran: the fans have left their loops
Closed == joins > 0

(* ----------------------- worker processes ----------------------------- *)

\* A worker Process with the WorkerContext it was started with:
\*   job, cancel  the context's job and its shared cancel Value
\*   pc           "idle" (waiting on the queue), "run" (inside fn), "fin" (about
\*                to push the finished record), "dead"
\*   step         the step the job's progress callback was last called with
\*   q            which Queue of the device the context's pending names
NewProc(d, q) ==
    [alive |-> TRUE, pc |-> "idle", job |-> d, cancel |-> FALSE, step |-> 0, q |-> q]
DeadProc(c) ==
    [alive |-> FALSE, pc |-> "dead", job |-> NoKey, cancel |-> c, step |-> 0, q |-> NoQ]

\* the three threads of the pool
Fans == {"logger", "progress", "finished"}

Init ==
    /\ \E cfg \in Configs : devices = cfg.devices /\ maxSteps = cfg.steps
    /\ queues = [d \in Devs |-> [g \in 0..MaxEvents |-> <<>>]]
    /\ pendingRef = [d \in Devs |-> 0]
    /\ procs = [d \in Devs |-> <<NewProc(d, 0)>>]
    /\ total_jobs = [d \in Devs |-> 0]
    /\ active_jobs = <<>>
    /\ active_keys = <<>>
    /\ cancelled_jobs = <<>>
    /\ finished_jobs = <<>>
    /\ progress = <<>>
    /\ finished = <<>>
    /\ joins = 0
    /\ threads = Fans
    /\ nextKey = 1
    /\ events = 0
    /\ emitAfterCancel = {}
    /\ rejected = {}
    /\ taken = [d \in Devs |-> <<0>>]
    /\ orphans = {}
    /\ last = Label("init", NoKey, NoPin, NoDev, "-")

(* ------------------------- get_next_device ---------------------------- *)

\* self.pending[d.device].qsize()
qsize(i) == Len(Pending(Device(i)))

\* jobs = Counter(range(len(self.devices))); jobs.update([qsize ...]):
\* the keys of the counter and the count of each
CounterKeys == DevIdx \cup {qsize(i) : i \in DevIdx}
CounterCount(k) ==
    (IF k \in DevIdx THEN 1 ELSE 0) + Cardinality({i \in DevIdx : qsize(i) = k})

\* queued[-1][1]: the count of the last entry of most_common(), the least count
lowest_count == Min({CounterCount(k) : k \in CounterKeys})
\* lowest_devices sorted in descending order: its first element
lowest_device_descending ==
    CHOOSE k \in CounterKeys :
        /\ CounterCount(k) = lowest_count
        /\ \A j \in CounterKeys : CounterCount(j) = lowest_count => j <= k
\* lowest_devices, sorted: its first element
lowest_device == Min({k \in CounterKeys : CounterCount(k) = lowest_count})

\* the override loop of get_next_device: the first index whose name matches
PinnedIndex(needs_device) == Min({i \in DevIdx : Device(i) = needs_device})
PinMatches(needs_device) ==
    needs_device # NoPin /\ \E i \in DevIdx : Device(i) = needs_device

\* get_next_device without the override loop: the pin is ignored
get_next_device_ignores_pin(needs_device) ==
    IF \E d \in Devs : ~HasQueue(d) THEN KeyError ELSE lowest_device

\* get_next_device falling back to the first device when the pin matches none
get_next_device_first_on_miss(needs_device) ==
    IF PinMatches(needs_device) THEN PinnedIndex(needs_device)
    ELSE IF needs_device # NoPin THEN 0
    ELSE IF \E d \in Devs : ~HasQueue(d) THEN KeyError
    ELSE lowest_device

get_next_device(needs_device) ==
    IF PinMatches(needs_device) THEN PinnedIndex(needs_device)
    ELSE IF \E d \in Devs : ~HasQueue(d) THEN KeyError
    ELSE lowest_device

(* ------------------------------ recycle ------------------------------- *)

\* needs_restart with the limit compared by >= instead of >
NeedsRestartAtLimit(tj) ==
    {d \in Devs : ~Cur(d).alive \/ tj[d] >= max_jobs_per_worker}

\* needs_restart without the comparison of the job count
NeedsRestartDeadOnly(tj) == {d \in Devs : ~Cur(d).alive}

\* needs_restart, for the job counts tj
NeedsRestart(tj) ==
    {d \in Devs : ~Cur(d).alive \/ tj[d] > max_jobs_per_worker}

\* create_device_worker making a new Queue every time
WorkerQueueAlwaysNew(d) == (pendingRef[d] + 1) % (MaxEvents + 1)

\* create_device_worker: the Queue the new context gets; an existing entry of
\* self.pending is reused, else a new Queue is made
WorkerQueue(d) == IF HasQueue(d) THEN pendingRef[d] ELSE joins

\* the old process when its handle is replaced: one that is still alive is
\* left running with its old context; nothing refers to a dead one
Abandon(p) == IF p.alive THEN p ELSE DeadProc(FALSE)

RecycledRef(R) == [d \in Devs |-> IF d \in R THEN WorkerQueue(d) ELSE pendingRef[d]]
RecycledProcs(R) ==
    [d \in Devs |->
        IF d \in R
        THEN Append([procs[d] EXCEPT ![Len(procs[d])] = Abandon(@)],
                   NewProc(d, WorkerQueue(d)))
        ELSE procs[d]]
\* the entries taken by each process: a new process has taken none
RecycledTaken(R) ==
    [d \in Devs |-> IF d \in R THEN Append(taken[d], 0) ELSE taken[d]]
\* recycle without the reset of the job count
RecycledTotalsKept(tj, R) == tj

RecycledTotals(tj, R) == [d \in Devs |-> IF d \in R THEN 0 ELSE tj[d]]

\* recycle(), called directly; a call that finds nothing to restart changes
\* nothing and is left out
Recycle ==
    /\ LET R == NeedsRestart(total_jobs) IN
        /\ R # {}
        /\ pendingRef' = RecycledRef(R)
        /\ procs' = RecycledProcs(R)
        /\ total_jobs' = RecycledTotals(total_jobs, R)
        /\ taken' = RecycledTaken(R)
    /\ last' = Label("recycle", NoKey, NoPin, NoDev, "ok")
    /\ UNCHANGED <<params, rejected, orphans, queues, active_jobs, active_keys, cancelled_jobs, finished_jobs,
                   progress, finished, joins, threads, nextKey, events, emitAfterCancel>>

(* ------------------------------- submit ------------------------------- *)

\* submit() without the count of the job
CountedNot(device) == total_jobs

\* self.total_jobs[device] += 1 (or = 1)
Counted(device) == [total_jobs EXCEPT ![device] = @ + 1]

\* a put that never reports a full queue
PutResultUnbounded(ref, device) ==
    IF ref[device] = NoQ THEN "KeyError" ELSE "ok"

\* self.pending[device].put(..., block=False) after the recycle left refs ref:
\* "KeyError" without an entry, "Full" at capacity, else "ok"
PutResult(ref, device) ==
    IF ref[device] = NoQ THEN "KeyError"
    ELSE IF Len(queues[device][ref[device]]) >= max_pending_per_worker THEN "Full"
    ELSE "ok"

Submit(key, needs_device) ==
    /\ nextKey <= NumKeys
    /\ key = KeyNames[nextKey]
    /\ nextKey' = nextKey + 1
    /\ LET idx == get_next_device(needs_device) IN
        IF idx = KeyError
        THEN /\ last' = Label("submit", key, needs_device, NoDev, "KeyError")
             /\ UNCHANGED <<queues, pendingRef, procs, total_jobs, rejected, taken>>
        ELSE LET device == Device(idx)
                 R == NeedsRestart(Counted(device))
                 ref == RecycledRef(R)
                 res == PutResult(ref, device)
             IN /\ pendingRef' = ref
                /\ procs' = RecycledProcs(R)
                /\ total_jobs' = RecycledTotals(Counted(device), R)
                /\ taken' = RecycledTaken(R)
                /\ queues' = IF res = "ok"
                             THEN [queues EXCEPT ![device][ref[device]] = Append(@, key)]
                             ELSE queues
                /\ rejected' = IF res = "Full" THEN rejected \cup {key} ELSE rejected
                /\ last' = Label("submit", key, needs_device, device, res)
    /\ UNCHANGED <<params, orphans, active_jobs, active_keys, cancelled_jobs, finished_jobs, progress,
                   finished, joins, threads, emitAfterCancel, events>>

(* --------------------------- WorkerContext ---------------------------- *)

\* Queue.put(item, block=False) on a stream of max_pending_per_worker slots
StreamFull(stream) == Len(stream) >= max_pending_per_worker

\* set_progress: the record put on the progress stream
set_progress(p, d, value) == Append(progress, <<p.job, d, value>>)
\* set_finished putting its record twice
set_finished_twice(p, d) == Append(Append(finished, <<p.job, d>>), <<p.job, d>>)
\* set_finished: the record put on the finished stream
set_finished(p, d) == Append(finished, <<p.job, d>>)
\* set_cancel on a context
set_cancel(p, c) == [p EXCEPT !.cancel = c]

\* on_progress without the check of the cancel flag
on_progress_never_raises(p) == FALSE

\* on_progress raises ("job has been cancelled") instead of reporting
on_progress_raises(p) == p.cancel

Tau == Label("step", NoKey, NoPin, NoDev, "-")

(* ---------------------------- worker loop ----------------------------- *)

\* the worker takes the next entry of its queue, clears the flags of its
\* context (which reports progress 0 under the job the context still names)
\* and binds the context to the new job.  A full progress stream makes
\* clear_flags raise outside the protected call of the job: the process ends.
Dequeue(d, g) ==
    LET p == procs[d][g] IN
    /\ p.alive /\ p.pc = "idle"
    /\ queues[d][p.q] # <<>>
    /\ queues' = [queues EXCEPT ![d][p.q] = Tail(@)]
    /\ IF StreamFull(progress)
       THEN /\ procs' = [procs EXCEPT ![d][g] = DeadProc(FALSE)]
            /\ taken' = [taken EXCEPT ![d][g] = 0]
            /\ UNCHANGED progress
       ELSE /\ progress' = set_progress(p, d, 0)
            /\ procs' = [procs EXCEPT ![d][g] =
                   [set_cancel(p, FALSE) EXCEPT !.job = Head(queues[d][p.q]),
                                                 !.pc = "run", !.step = 0]]
            /\ taken' = [taken EXCEPT ![d][g] = @ + 1]
    /\ last' = Tau
    /\ UNCHANGED <<params, rejected, orphans, pendingRef, total_jobs, active_jobs, active_keys, cancelled_jobs,
                   finished_jobs, finished, joins, threads, nextKey, emitAfterCancel,
                   events>>

\* the job calls its progress callback with the next step; the callback
\* raises when the job is cancelled or the stream is full, which ends the job
Emit(d, g) ==
    LET p == procs[d][g] IN
    /\ p.alive /\ p.pc = "run" /\ p.step < maxSteps
    /\ IF on_progress_raises(p) \/ StreamFull(progress)
       THEN /\ procs' = [procs EXCEPT ![d][g].pc = "fin", ![d][g].step = p.step + 1]
            /\ UNCHANGED <<progress, emitAfterCancel>>
       ELSE /\ progress' = set_progress(p, d, p.step + 1)
            /\ procs' = [procs EXCEPT ![d][g].step = p.step + 1]
            /\ emitAfterCancel' = IF p.job \in SeqSet(cancelled_jobs)
                                  THEN emitAfterCancel \cup {p.job}
                                  ELSE emitAfterCancel
    /\ last' = Tau
    /\ UNCHANGED <<params, taken, rejected, orphans, queues, pendingRef, total_jobs, active_jobs, active_keys,
                   cancelled_jobs, finished_jobs, finished, joins, threads, nextKey,
                   events>>

\* the job function returns, or raises an error of its own
EndJob(d, g) ==
    LET p == procs[d][g] IN
    /\ p.alive /\ p.pc = "run"
    /\ procs' = [procs EXCEPT ![d][g].pc = "fin"]
    /\ last' = Tau
    /\ UNCHANGED <<params, taken, rejected, orphans, queues, pendingRef, total_jobs, active_jobs, active_keys,
                   cancelled_jobs, finished_jobs, progress, finished, joins, threads,
                   nextKey, emitAfterCancel, events>>

\* the worker pushes the finished record (a blocking put) and loops
Finish(d, g) ==
    LET p == procs[d][g] IN
    /\ p.alive /\ p.pc = "fin"
    /\ ~StreamFull(finished)
    /\ finished' = set_finished(p, d)
    /\ procs' = [procs EXCEPT ![d][g].pc = "idle"]
    /\ last' = Label("finish", p.job, NoPin, d, "-")
    /\ UNCHANGED <<params, taken, rejected, orphans, queues, pendingRef, total_jobs, active_jobs, active_keys,
                   cancelled_jobs, finished_jobs, progress, joins, threads, nextKey,
                   emitAfterCancel, events>>

\* the operating system ends a worker process
Die(d, g) ==
    LET p == procs[d][g] IN
    /\ p.alive
    /\ events < MaxEvents
    /\ events' = events + 1
    /\ procs' = [procs EXCEPT ![d][g] =
            DeadProc(IF g = Len(procs[d]) THEN p.cancel ELSE FALSE)]
    /\ orphans' = IF p.pc \in {"run", "fin"} /\ p.step > 0
                  THEN orphans \cup {p.job}
                  ELSE orphans
    /\ taken' = [taken EXCEPT ![d][g] = 0]
    /\ last' = Tau
    /\ UNCHANGED <<params, rejected, queues, pendingRef, total_jobs, active_jobs, active_keys,
                   cancelled_jobs, finished_jobs, progress, finished, joins, threads,
                   nextKey, emitAfterCancel>>

(* ------------------------------- fans --------------------------------- *)

\* self.active_jobs[job] = (device, value)
Upsert(job, device, value) ==
    [k \in (DOMAIN active_jobs) \cup {job} |->
        IF k = job THEN <<device, value>> ELSE active_jobs[k]]
\* del self.active_jobs[job]
Without(job) == [k \in (DOMAIN active_jobs) \ {job} |-> active_jobs[k]]

\* the order of the dict's keys: a new key goes last, an updated key keeps its
\* place, a deleted key leaves
UpsertKey(job) ==
    IF job \in DOMAIN active_jobs THEN active_keys ELSE Append(active_keys, job)
WithoutKey(job) == SelectSeq(active_keys, LAMBDA k : k # job)

\* self.context[device].set_cancel()
CancelOn(device) == [procs EXCEPT ![device][Len(procs[device])] = set_cancel(@, TRUE)]

\* one round of progress_worker
ProgressFan ==
    /\ ~Closed
    /\ progress # <<>>
    /\ LET job == Head(progress)[1]
           device == Head(progress)[2]
           value == Head(progress)[3]
       IN /\ active_jobs' = Upsert(job, device, value)
          /\ active_keys' = UpsertKey(job)
          /\ procs' = IF job \in SeqSet(cancelled_jobs) THEN CancelOn(device) ELSE procs
    /\ progress' = Tail(progress)
    /\ last' = Tau
    /\ UNCHANGED <<params, taken, rejected, orphans, queues, pendingRef, total_jobs, cancelled_jobs,
                   finished_jobs, finished, joins, threads, nextKey, emitAfterCancel,
                   events>>

\* finished_worker naming, in its record, the key that precedes the job in
\* active_jobs
FinishedRecordPrevious(job, device) ==
    LET i == CHOOSE n \in 1..Len(active_keys) : active_keys[n] = job
    IN <<active_keys[IF i > 1 THEN i - 1 ELSE i], active_jobs[job][2], Cur(device).cancel>>

\* the record finished_worker appends for a job
FinishedRecord(job, device) == <<job, active_jobs[job][2], Cur(device).cancel>>

\* one round of finished_worker; a job without an entry in active_jobs raises
\* KeyError, which is logged
FinishedFan ==
    /\ ~Closed
    /\ finished # <<>>
    /\ LET job == Head(finished)[1]
           device == Head(finished)[2]
       IN IF job \in DOMAIN active_jobs
          THEN /\ finished_jobs' = Append(finished_jobs, FinishedRecord(job, device))
               /\ active_jobs' = Without(job)
               /\ active_keys' = WithoutKey(job)
               /\ last' = Label("finished", job, NoPin, device, "ok")
          ELSE /\ UNCHANGED <<finished_jobs, active_jobs, active_keys>>
               /\ last' = Label("finished", job, NoPin, device, "KeyError")
    /\ finished' = Tail(finished)
    /\ UNCHANGED <<params, taken, rejected, orphans, queues, pendingRef, procs, total_jobs, cancelled_jobs,
                   progress, joins, threads, nextKey, emitAfterCancel, events>>

\* a fan that leaves its loop only once its stream is drained as well
FanStopsWhenDrained(name) ==
    /\ Closed
    /\ name = "progress" => progress = <<>>
    /\ name = "finished" => finished = <<>>

\* get() on a closed Queue raises ValueError, which a fan answers with break
FanStops(name) == Closed

\* a fan finds its stream closed and leaves its loop
FanExit(name) ==
    /\ name \in threads
    /\ FanStops(name)
    /\ threads' = threads \ {name}
    /\ last' = Tau
    /\ UNCHANGED <<params, taken, rejected, orphans, queues, pendingRef, procs, total_jobs, active_jobs,
                   active_keys, cancelled_jobs, finished_jobs, progress, finished,
                   joins, nextKey, events, emitAfterCancel>>

(* --------------------------- cancel, join ----------------------------- *)

\* cancel(key) setting the flag to the opposite of what it is
cancel_contexts_toggle(pr, aj, key) ==
    IF key \in DOMAIN aj
    THEN [pr EXCEPT ![aj[key][1]][Len(pr[aj[key][1]])] = set_cancel(@, ~@.cancel)]
    ELSE pr

\* cancel(key) stopping the worker of the device the job was seen on
cancel_contexts_stops_worker(pr, aj, key) ==
    IF key \in DOMAIN aj
    THEN [pr EXCEPT ![aj[key][1]][Len(pr[aj[key][1]])] = DeadProc(TRUE)]
    ELSE pr

\* cancel(key): self.cancelled_jobs.append(key)
cancel_list(cj, key) == Append(cj, key)
\* cancel(key): the contexts after the call; the flag of the device's current
\* context is set when key is in active_jobs aj
cancel_contexts(pr, aj, key) ==
    IF key \in DOMAIN aj
    THEN [pr EXCEPT ![aj[key][1]][Len(pr[aj[key][1]])] = set_cancel(@, TRUE)]
    ELSE pr

Cancel(key) ==
    /\ events < MaxEvents
    /\ events' = events + 1
    /\ cancelled_jobs' = cancel_list(cancelled_jobs, key)
    /\ procs' = cancel_contexts(procs, active_jobs, key)
    /\ last' = Label("cancel", key, NoPin, NoDev, "True")
    /\ UNCHANGED <<params, taken, rejected, orphans, queues, pendingRef, total_jobs, active_jobs, active_keys,
                   finished_jobs, progress, finished, joins, threads, nextKey,
                   emitAfterCancel>>

\* join(): the streams and queues are closed, self.pending is cleared; the
\* worker processes are waited for, not stopped
Join ==
    /\ events < MaxEvents
    /\ events' = events + 1
    /\ joins' = joins + 1
    /\ UNCHANGED threads
    /\ pendingRef' = [d \in Devs |-> NoQ]
    /\ last' = Label("join", NoKey, NoPin, NoDev, "-")
    /\ UNCHANGED <<params, taken, rejected, orphans, queues, procs, total_jobs, active_jobs, active_keys, cancelled_jobs,
                   finished_jobs, progress, finished, nextKey, emitAfterCancel>>

(* --------------------------- done, status ----------------------------- *)

\* done(key) looking into active_jobs before the history
done_active_first(fj, aj, key) ==
    LET hits == {i \in 1..Len(fj) : fj[i][1] = key} IN
    IF key \in DOMAIN aj THEN <<"False", aj[key][2]>>
    ELSE IF hits # {} THEN <<"True", fj[Min(hits)][2]>>
    ELSE <<"None", 0>>

\* done(key) over the history fj and the active jobs aj: the first record of
\* key in fj gives (True, progress); else a key not in aj gives (None, 0);
\* else (False, progress)
done(fj, aj, key) ==
    LET hits == {i \in 1..Len(fj) : fj[i][1] = key} IN
    IF hits # {} THEN <<"True", fj[Min(hits)][2]>>
    ELSE IF key \notin DOMAIN aj THEN <<"None", 0>>
    ELSE <<"False", aj[key][2]>>

\* status() listing the history before the active jobs
status_history_first(aj, ak, cj, fj) ==
    [i \in 1..Len(fj) |-> <<fj[i][1], fj[i][2], TRUE, fj[i][3]>>]
    \o [i \in 1..Len(ak) |-> <<ak[i], aj[ak[i]][2], FALSE, ak[i] \in SeqSet(cj)>>]

\* status(): one tuple per item of active_jobs (keys in the order ak), then
\* one per record of the history
status(aj, ak, cj, fj) ==
    [i \in 1..Len(ak) |-> <<ak[i], aj[ak[i]][2], FALSE, ak[i] \in SeqSet(cj)>>]
    \o [i \in 1..Len(fj) |-> <<fj[i][1], fj[i][2], TRUE, fj[i][3]>>]

\* a query that drops the oldest record of the history as it reads
QueryFrameEvicts ==
    /\ finished_jobs' = IF finished_jobs = <<>> THEN finished_jobs ELSE Tail(finished_jobs)
    /\ UNCHANGED <<params, taken, rejected, orphans, queues, pendingRef, procs, total_jobs, active_jobs,
                   active_keys, cancelled_jobs, progress, finished, joins, threads, nextKey,
                   events, emitAfterCancel>>

\* what done() and status() assign to: nothing
QueryFrame ==
    UNCHANGED <<params, taken, rejected, orphans, queues, pendingRef, procs, total_jobs, active_jobs,
                active_keys, cancelled_jobs, finished_jobs, progress, finished,
                joins, threads, nextKey, events, emitAfterCancel>>

\* a caller polls done(key) or status(); callers poll until the first of the
\* MaxEvents calls of cancel() or join() or process deaths
Done(key) ==
    /\ events < MaxEvents
    /\ last' = Label("done", key, NoPin, NoDev, done(finished_jobs, active_jobs, key))
    /\ QueryFrame

Status ==
    /\ events < MaxEvents
    /\ last' = Label("status", NoKey, NoPin, NoDev,
                     status(active_jobs, active_keys, cancelled_jobs, finished_jobs))
    /\ QueryFrame

(* --------------------------- specification ---------------------------- *)

Next ==
    \/ \E key \in Keys, needs_device \in Pins : Submit(key, needs_device)
    \/ \E key \in Keys : Cancel(key)
    \/ Recycle
    \/ Join
    \/ \E d \in Devs : \E g \in 1..Len(procs[d]) : Dequeue(d, g)
    \/ \E d \in Devs : \E g \in 1..Len(procs[d]) : Emit(d, g)
    \/ \E d \in Devs : \E g \in 1..Len(procs[d]) : EndJob(d, g)
    \/ \E d \in Devs : \E g \in 1..Len(procs[d]) : Finish(d, g)
    \/ \E d \in Devs : \E g \in 1..Len(procs[d]) : Die(d, g)
    \/ ProgressFan
    \/ FinishedFan
    \/ \E key \in Keys : Done(key)
    \/ Status
    \/ \E name \in Fans : FanExit(name)

Spec == Init /\ [][Next]_vars

\* The pool under fair scheduling, with no join(), no cancel() and no process
\* killed by the operating system.  Every worker process keeps running: it
\* takes the next entry when there is one, a job function goes on to its next
\* callback or to its end, and the finished record is pushed once the stream
\* has room.  The progress and the finished fan keep running too.
AllDevices == {DeviceNames[i] : i \in 1..NumDevices}
ProcIds == 1..(NumKeys + MaxEvents + 1)
IsProc(d, g) == d \in Devs /\ g <= Len(procs[d])

LiveNext ==
    \/ \E key \in Keys, needs_device \in Pins : Submit(key, needs_device)
    \/ Recycle
    \/ \E d \in Devs : \E g \in 1..Len(procs[d]) : Dequeue(d, g)
    \/ \E d \in Devs : \E g \in 1..Len(procs[d]) : Emit(d, g)
    \/ \E d \in Devs : \E g \in 1..Len(procs[d]) : EndJob(d, g)
    \/ \E d \in Devs : \E g \in 1..Len(procs[d]) : Finish(d, g)
    \/ ProgressFan
    \/ FinishedFan

WorkersFair ==
    \A d \in AllDevices : \A g \in ProcIds :
        /\ WF_vars(IsProc(d, g) /\ Dequeue(d, g))
        /\ WF_vars(IsProc(d, g) /\ (Emit(d, g) \/ EndJob(d, g)))
        /\ WF_vars(IsProc(d, g) /\ Finish(d, g))
FansFair ==
    /\ WF_vars(ProgressFan)
    /\ WF_vars(FinishedFan)
    /\ \A name \in Fans : WF_vars(FanExit(name))

LiveSpec == Init /\ [][LiveNext]_vars /\ WorkersFair /\ FansFair

\* The pool of NumDevices devices, whose jobs report no progress, under fair
\* scheduling and with join()
JoinInit == Init /\ Len(devices) = NumDevices

JoinNext ==
    \/ \E key \in Keys, needs_device \in Pins : Submit(key, needs_device)
    \/ Recycle
    \/ Join
    \/ \E d \in Devs : \E g \in 1..Len(procs[d]) : Dequeue(d, g)
    \/ \E d \in Devs : \E g \in 1..Len(procs[d]) : EndJob(d, g)
    \/ \E d \in Devs : \E g \in 1..Len(procs[d]) : Finish(d, g)
    \/ ProgressFan
    \/ FinishedFan
    \/ \E name \in Fans : FanExit(name)

JoinSpec == JoinInit /\ [][JoinNext]_vars /\ WorkersFair /\ FansFair

\* The pool under fair scheduling with the events that come from outside: a
\* cancel() of a caller and the death of a worker process
EventNext ==
    \/ LiveNext
    \/ \E key \in Keys : Cancel(key)
    \/ \E d \in Devs : \E g \in 1..Len(procs[d]) : Die(d, g)

EventSpec == Init /\ [][EventNext]_vars /\ WorkersFair /\ FansFair

\* The pool found with jobs already queued: every combination of queue
\* depths, left by earlier calls of submit() that no worker has taken yet.
\* Every (max_jobs_per_worker + 1)-th of these calls has reset the count of
\* its device and started one more process.
Earlier == "j0"
EarlierProcs(d, n) ==
    [g \in 1..(1 + (n \div (max_jobs_per_worker + 1))) |-> NewProc(d, 0)]
DepthInit ==
    \E cfg \in Configs :
    \E depth \in [{cfg.devices[i] : i \in 1..Len(cfg.devices)} -> 0..max_pending_per_worker] :
        /\ devices = cfg.devices /\ maxSteps = cfg.steps
        /\ queues = [d \in Devs |-> [g \in 0..MaxEvents |->
                        IF g = 0 THEN [i \in 1..depth[d] |-> Earlier] ELSE <<>>]]
        /\ pendingRef = [d \in Devs |-> 0]
        /\ procs = [d \in Devs |-> EarlierProcs(d, depth[d])]
        /\ total_jobs = [d \in Devs |-> depth[d] % (max_jobs_per_worker + 1)]
        /\ active_jobs = <<>>
        /\ active_keys = <<>>
        /\ cancelled_jobs = <<>>
        /\ finished_jobs = <<>>
        /\ progress = <<>>
        /\ finished = <<>>
        /\ joins = 0
        /\ threads = Fans
        /\ nextKey = 1
        /\ events = 0
        /\ emitAfterCancel = {}
        /\ rejected = {}
        /\ taken = [d \in Devs |-> [g \in DOMAIN procs[d] |-> 0]]
        /\ orphans = {}
        /\ last = Label("init", NoKey, NoPin, NoDev, "-")

DepthNext ==
    \/ \E key \in Keys, needs_device \in Pins : Submit(key, needs_device)
    \/ \E d \in Devs : \E g \in 1..Len(procs[d]) : Dequeue(d, g)

DepthSpec == DepthInit /\ [][DepthNext]_vars

\* The pool found with jobs already queued, with its workers and fans running
\* The pool after max_pending_per_worker calls of submit() pinned to the first
\* device, before any worker has taken an entry; its jobs report no progress
LoadInit ==
    /\ DepthInit
    /\ Len(devices) = NumDevices
    /\ \A i \in DevIdx : qsize(i) = IF i = 0 THEN max_pending_per_worker ELSE 0

LoadNext ==
    \/ \E key \in Keys, needs_device \in Pins : Submit(key, needs_device)
    \/ Recycle
    \/ \E d \in Devs : \E g \in 1..Len(procs[d]) : Dequeue(d, g)
    \/ \E d \in Devs : \E g \in 1..Len(procs[d]) : EndJob(d, g)
    \/ \E d \in Devs : \E g \in 1..Len(procs[d]) : Finish(d, g)
    \/ ProgressFan
    \/ FinishedFan

LoadSpec == LoadInit /\ [][LoadNext]_vars

(* ------------------------------ claims -------------------------------- *)

\* keys are submitted in the order of KeyNames
Before(k1, k2) == KeyNo(k1) < KeyNo(k2)
\* the jobs a process of d has taken from the queue and not yet finished
Unfinished(d) ==
    {procs[d][g].job : g \in {h \in 1..Len(procs[d]) : procs[d][h].pc \in {"run", "fin"}}}
AllAlive(d) == \A g \in 1..Len(procs[d]) : procs[d][g].alive

\* C1: per-device FIFO.  When the finished record of a job is pushed on a
\* device none of whose processes has died, no job submitted earlier to that
\* device is still unfinished (running in a process, or waiting in the queue).
C1_PerDeviceFifo ==
    (last.op = "finish" /\ AllAlive(last.dev)) =>
        /\ \A k \in Unfinished(last.dev) : ~Before(k, last.key)
        /\ \A g \in 0..MaxEvents :
              \A k \in SeqSet(queues[last.dev][g]) : ~Before(k, last.key)

\* the records of finished_jobs for key k
FinishedOf(k) == {i \in 1..Len(finished_jobs) : finished_jobs[i][1] = k}

\* C2: a job that pushed a progress record after cancel(key) was called ends
\* in finished_jobs with cancelled = true: once the finished fan has handled
\* its finished record, finished_jobs holds such a record.
C2_CancelledJobEndsCancelled ==
    (last.op = "finished" /\ last.key \in emitAfterCancel) =>
        \E i \in FinishedOf(last.key) : finished_jobs[i][3] = TRUE

\* C3: finished_jobs never holds more than finished_limit records.
C3_FinishedHistoryBounded == Len(finished_jobs) <= finished_limit

\* the device the specification's balancing names: the least queue depth,
\* and the lowest index among equals
LeastDepth == Min({qsize(i) : i \in DevIdx})
LeastLoaded == Min({i \in DevIdx : qsize(i) = LeastDepth})

\* C4: without a pin, get_next_device returns the lowest index among the
\* devices of least queue depth.
C4_LeastLoadedDevice ==
    (\A d \in Devs : HasQueue(d)) => get_next_device(NoPin) = LeastLoaded

\* the step just taken was a submit() that reached the recycle and the put
Submitted == last'.op = "submit" /\ last'.dev # NoDev
\* the Queue of device d a put reaches after the recycle of this step
QueueAfter(d) == pendingRef'[d]
\* submit() left every queue as it was
NothingQueued == queues' = queues
\* submit() appended key to the queue of d and changed no other queue
QueuedOn(d, key) ==
    /\ QueueAfter(d) # NoQ
    /\ queues' = [queues EXCEPT ![d][QueueAfter(d)] = Append(@, key)]

\* C5 as claimed: before join(), a submit() pinned to a device of the pool
\* leaves the job at the tail of that device's pending queue.
C5_PinnedAlwaysQueued ==
    (last.op = "submit" /\ last.pin \in Devs /\ joins = 0) =>
        /\ Pending(last.pin) # <<>>
        /\ Last(Pending(last.pin)) = last.key

\* C5, amended: a submit() pinned to a device of the pool selects that device
\* whatever the queue depths are; the job is appended to that device's queue
\* and to no other, unless that queue is full or missing, and then the call
\* fails and no queue changes.
C5_PinnedSelectsDevice ==
    [][(Submitted /\ last'.pin \in Devs) =>
        LET d == last'.pin IN
        /\ last'.dev = d
        /\ IF QueueAfter(d) # NoQ
              /\ Len(queues[d][QueueAfter(d)]) < max_pending_per_worker
           THEN last'.res = "ok" /\ QueuedOn(d, last'.key)
           ELSE last'.res # "ok" /\ NothingQueued]_vars

\* the pinned device is the deeper one: d1 holds two jobs and d0 none, and
\* the job went to d1
C5_Witness ==
    /\ Len(devices) = 2
    /\ last.op = "submit" /\ last.pin = Device(1) /\ last.res = "ok"
    /\ HasQueue(Device(0)) /\ Pending(Device(0)) = <<>>
    /\ Len(Pending(Device(1))) = 2
    /\ Last(Pending(Device(1))) = last.key

\* the device a submit() without a pin selects in the current state
UnpinnedDevice ==
    IF get_next_device(NoPin) = KeyError THEN NoDev ELSE Device(get_next_device(NoPin))

\* C6: a submit() whose pin names no device of the pool selects the device a
\* submit() without a pin selects in the same state, and queues only there.
C6_UnknownPinAsNoPin ==
    [][(last'.op = "submit" /\ last'.pin = UnknownPin) =>
        /\ last'.dev = UnpinnedDevice
        /\ \A d \in Devs : queues'[d] # queues[d] => d = UnpinnedDevice]_vars

C6_Witness ==
    /\ Len(devices) = 2
    /\ last.op = "submit" /\ last.pin = UnknownPin /\ last.res = "ok"
    /\ last.dev = Device(0)
    /\ Pending(Device(0)) = <<last.key>>
    /\ Len(Pending(Device(1))) = 1

\* C7: no pending queue ever holds more than max_pending_per_worker entries,
\* and a submit() whose selected queue is at that size fails with Full and
\* changes no queue.
C7_SubmitBackpressure ==
    /\ [](\A d \in Devs : \A g \in 0..MaxEvents :
            Len(queues[d][g]) <= max_pending_per_worker)
    /\ [][(Submitted /\ QueueAfter(last'.dev) # NoQ
              /\ Len(queues[last'.dev][QueueAfter(last'.dev)]) >= max_pending_per_worker)
            => (last'.res = "Full" /\ NothingQueued)]_vars

\* the selected queue was full and another device had room
C7_Witness ==
    /\ Len(devices) = 2
    /\ last.op = "submit" /\ last.res = "Full"
    /\ Len(Pending(last.dev)) = max_pending_per_worker
    /\ \E d \in Devs : Len(Pending(d)) < max_pending_per_worker

\* the recycle of this step replaced the worker of d
Replaced(d) == Len(procs'[d]) > Len(procs[d])

\* C8: a recycle that replaces the worker of d keeps d's pending queue: the
\* same Queue, with the same entries in the same order (the put of the
\* submit() that called recycle comes after it, at the tail), and the new
\* worker's context reads that Queue.
C8_RecycleKeepsQueue ==
    [][\A d \in Devs : (Replaced(d) /\ HasQueue(d)) =>
        /\ pendingRef'[d] = pendingRef[d]
        /\ Last(procs'[d]).q = pendingRef[d]
        /\ \/ queues'[d] = queues[d]
           \/ /\ Submitted /\ last'.dev = d /\ last'.res = "ok"
              /\ QueuedOn(d, last'.key)]_vars

\* a worker was replaced by the recycle of a submit() while two jobs waited:
\* both are still queued, in order, in front of the new job
C8_Witness ==
    /\ last.op = "submit" /\ last.res = "Full"
    /\ Len(procs[last.dev]) = 2
    /\ Cur(last.dev).pc = "idle" /\ Cur(last.dev).q = pendingRef[last.dev]
    /\ Len(Pending(last.dev)) = 2
    /\ Before(Pending(last.dev)[1], Pending(last.dev)[2])

\* the job counts recycle() sees in this step: submit() has counted its job
CountsSeen == IF Submitted THEN Counted(last'.dev) ELSE total_jobs

\* C9: recycle (called by submit() or directly) replaces the worker of d
\* exactly when its process is not alive or its job count is above
\* max_jobs_per_worker; total_jobs[d] is then 0; an old process that is
\* still alive is left running.  No other step replaces a worker.
C9_RecycleExactlyWhenNeeded ==
    [][\A d \in Devs :
        /\ Replaced(d) <=>
              /\ Submitted \/ last'.op = "recycle"
              /\ ~Cur(d).alive \/ CountsSeen[d] > max_jobs_per_worker
        /\ Replaced(d) =>
              /\ Len(procs'[d]) = Len(procs[d]) + 1
              /\ total_jobs'[d] = 0
              /\ Last(procs'[d]).alive /\ Last(procs'[d]).pc = "idle"
              /\ Cur(d).alive => procs'[d][Len(procs[d])] = Cur(d)]_vars

\* a live worker was replaced while it was running a job
C9_Witness ==
    /\ last.op = "submit" /\ last.dev \in Devs
    /\ Len(procs[last.dev]) = 2
    /\ procs[last.dev][1].alive /\ procs[last.dev][1].pc = "run"
    /\ Cur(last.dev).alive
    /\ total_jobs[last.dev] = 0

\* the submit() of this step is pinned to the first device, no process has
\* died, and it is the first to push the device's count over the limit
OverLimitSubmit ==
    /\ Submitted /\ last'.pin = Device(0) /\ last'.dev = Device(0)
    /\ last'.key = KeyNames[max_jobs_per_worker + 1]
    /\ total_jobs[Device(0)] = max_jobs_per_worker
    /\ AllAlive(Device(0))

\* C10 as claimed: after max_jobs_per_worker + 1 jobs pinned to d0, the last
\* submit() replaces the worker of d0 and leaves total_jobs[d0] = 1.
C10_CountIsOneAfterRecycle ==
    [][OverLimitSubmit =>
        (Replaced(Device(0)) /\ total_jobs'[Device(0)] = 1)]_vars

\* C10, amended: it replaces the worker of d0 and leaves total_jobs[d0] = 0.
C10_CountIsZeroAfterRecycle ==
    [][OverLimitSubmit =>
        (Replaced(Device(0)) /\ total_jobs'[Device(0)] = 0)]_vars

C10_Witness ==
    /\ max_jobs_per_worker = 2
    /\ last.op = "submit" /\ last.key = "j3" /\ last.pin = "d0" /\ last.dev = "d0"
    /\ AllAlive("d0") /\ Len(procs["d0"]) = 2
    /\ total_jobs["d0"] = 0

\* the keys a caller may name: those submitted and those of active_jobs
Known == Keys \cup DOMAIN active_jobs
\* A second cancel(k) in a row leaves what the first left: every context and
\* its flag, the answers of status() (cancel() assigns to neither active_jobs
\* nor finished_jobs, so done() answers as before) and cancelled_jobs: the
\* list itself (asList), or else its set of keys, the list holding k once more
SecondCancelKeeps(k, asList) ==
    LET cj1 == cancel_list(cancelled_jobs, k)
        pr1 == cancel_contexts(procs, active_jobs, k)
        cj2 == cancel_list(cj1, k)
        pr2 == cancel_contexts(pr1, active_jobs, k)
    IN /\ pr2 = pr1
       /\ status(active_jobs, active_keys, cj2, finished_jobs)
             = status(active_jobs, active_keys, cj1, finished_jobs)
       /\ IF asList THEN cj2 = cj1
          ELSE SeqSet(cj2) = SeqSet(cj1) /\ cj2 = Append(cj1, k)

\* C11 as claimed: in every state, a second cancel(k) leaves cancelled_jobs,
\* the cancel flags and the answers of done() and status() as the first left
\* them.
C11_CancelIdempotentList == \A k \in Known : SecondCancelKeeps(k, TRUE)

\* C11, amended: in every state, a second cancel(k) leaves the set of keys in
\* cancelled_jobs, the cancel flags and the answers of done() and status() as
\* the first left them; the list cancelled_jobs holds k once more.
C11_CancelIdempotent == \A k \in Known : SecondCancelKeeps(k, FALSE)

\* cancel(k) has set the flag of the context running the active job k
C11_Witness ==
    /\ last.op = "cancel" /\ last.key \in DOMAIN active_jobs
    /\ cancelled_jobs = <<last.key>>
    /\ Cur(active_jobs[last.key][1]).cancel
    /\ Cur(active_jobs[last.key][1]).job = last.key
    /\ Cur(active_jobs[last.key][1]).pc = "run"

\* the process g of device d makes the first call of its job's progress
\* callback in this step
FirstEmission(d, g) ==
    /\ procs[d][g].alive /\ procs[d][g].pc = "run" /\ procs[d][g].step = 0
    /\ procs'[d][g].step = 1

\* C12: a job whose key was cancelled before it started is cancelled on its
\* first progress emission: the first call of its callback raises, nothing is
\* pushed on the progress stream and the job ends.
C12_CancelledOnFirstProgress ==
    [][\A d \in Devs : \A g \in 1..Len(procs[d]) :
        (FirstEmission(d, g) /\ procs[d][g].job \in SeqSet(cancelled_jobs)) =>
            (progress' = progress /\ procs'[d][g].pc = "fin")]_vars

\* done() answers (True, p), (False, p) or (None, 0): Finished, Pending and
\* Unknown in the words of the specification
IsFinished == "True"
IsPending == "False"
IsUnknown == "None"

\* key k was submitted and has not yet reported progress: it waits in a queue,
\* or a worker runs it and its callback has not been called
NotYetEmitted(k) ==
    \/ \E d \in Devs : \E q \in 0..MaxEvents : k \in SeqSet(queues[d][q])
    \/ \E d \in Devs : \E g \in 1..Len(procs[d]) :
          procs[d][g].pc = "run" /\ procs[d][g].job = k /\ procs[d][g].step = 0

Queried == last'.op \in {"done", "status"}

\* C14: a call of done(k) or status() leaves active_jobs, finished_jobs,
\* cancelled_jobs, total_jobs, the pending queues, the contexts and workers
\* and the streams as they were, and the same call made again right after it
\* gives the answer it gave.
C14_QueriesReadOnly ==
    [][Queried =>
        /\ UNCHANGED <<active_jobs, active_keys, finished_jobs, cancelled_jobs,
                       total_jobs, queues, pendingRef, procs, progress, finished>>
        /\ last'.op = "done" =>
              done(finished_jobs', active_jobs', last'.key) = last'.res
        /\ last'.op = "status" =>
              status(active_jobs', active_keys', cancelled_jobs', finished_jobs')
                = last'.res]_vars

\* status() was called with a job in the history, a job active and a job
\* queued, and listed the first two
C14_Witness ==
    /\ last.op = "status" /\ Len(last.res) >= 2
    /\ finished_jobs # <<>> /\ active_keys # <<>>
    /\ \E d \in Devs : HasQueue(d) /\ Pending(d) # <<>>

\* C15: status() lists one entry (key, last progress, FALSE, key in
\* cancelled_jobs) for each key of active_jobs, and after them one entry
\* (key, progress, TRUE, cancelled as recorded) for each record of
\* finished_jobs, in the order of the history; no active entry comes after a
\* finished one.
C15_StatusOrder ==
    LET st == status(active_jobs, active_keys, cancelled_jobs, finished_jobs)
        n == Cardinality(DOMAIN active_jobs)
        m == Len(finished_jobs)
    IN /\ Len(st) = n + m
       /\ \A k \in DOMAIN active_jobs :
             Cardinality({i \in 1..n : st[i][1] = k}) = 1
       /\ \A i \in 1..n :
             /\ st[i][1] \in DOMAIN active_jobs
             /\ st[i] = <<st[i][1], active_jobs[st[i][1]][2], FALSE,
                          st[i][1] \in SeqSet(cancelled_jobs)>>
       /\ \A j \in 1..m :
             st[n + j] = <<finished_jobs[j][1], finished_jobs[j][2], TRUE,
                          finished_jobs[j][3]>>
       /\ \A i \in 1..Len(st) : \A j \in 1..Len(st) :
             (i < j /\ st[i][3]) => st[j][3]

\* status() was called and listed two active jobs and then a finished one
C15_Witness ==
    /\ last.op = "status" /\ Len(last.res) = 3
    /\ ~last.res[1][3] /\ ~last.res[2][3] /\ last.res[3][3]
    /\ last.res[3][1] = finished_jobs[1][1]

\* the finished record of job k was pushed after k had reported progress
Reported(k) ==
    /\ last.op = "finish" /\ last.key = k
    /\ \E g \in 1..Len(procs[last.dev]) :
          procs[last.dev][g].job = k /\ procs[last.dev][g].step > 0

\* C16: with no join() and under fair scheduling of the workers and the fans,
\* every job that reported progress and whose function has ended is
\* eventually in finished_jobs, so that done() answers Finished.
C16_ReportedJobsFinish ==
    \A k \in Keys : [](Reported(k) => <>(FinishedOf(k) # {}))

\* every number of processes of a device is within ProcIds
ProcIdsCover == \A d \in Devs : Len(procs[d]) \in ProcIds

\* C19: once join() has closed the streams, each of the three fans leaves its
\* loop; join() itself is one call that waits for the workers and stops none.
C19_JoinStopsFans ==
    /\ (joins > 0) ~> (threads = {})
    /\ [][last'.op = "join" => procs' = procs]_vars

\* join() was called while a worker ran a job and progress records were
\* unread; the worker is still running and every fan has left
C19_Witness ==
    /\ joins > 0 /\ threads = {}
    /\ progress # <<>>
    /\ \E d \in Devs : Cur(d).alive /\ Cur(d).pc = "run"

\* the processes of device d that hold a job: taken from the queue, and its
\* finished record not yet pushed
Executing(d) ==
    {g \in 1..Len(procs[d]) : procs[d][g].alive /\ procs[d][g].pc \in {"run", "fin"}}

\* C17: at most one job is executing per device at any time, also after a
\* recycle that left the old worker running.
C17_OneJobPerDevice == \A d \in Devs : Cardinality(Executing(d)) <= 1

C20_MissingEntryRecordsZero ==
    (last.op = "finished" /\ last.res = "KeyError") =>
        /\ finished_jobs # <<>>
        /\ Last(finished_jobs)[1] = last.key
        /\ Last(finished_jobs)[2] = 0

\* C21: when the finished fan records a job, the progress fan has read every
\* progress record the job's callback pushed: none with the job's key and a
\* step above 0 is still on the progress stream (the record with progress 0
\* is the one of clear_flags), so the recorded progress is the last emitted.
C21_FinishedAfterProgress ==
    (last.op = "finished" /\ last.res = "ok") =>
        \A i \in 1..Len(progress) :
            progress[i][1] = last.key => progress[i][3] = 0

\* C22: a key with a record in finished_jobs is not in active_jobs.
C22_FinishedIsFinal ==
    \A k \in DOMAIN active_jobs : FinishedOf(k) = {}

\* the process g of device d calls its job's progress callback in this step
Emission(d, g) ==
    /\ procs[d][g].alive /\ procs[d][g].pc = "run"
    /\ procs'[d][g].step = procs[d][g].step + 1

\* C23: a job whose key was never passed to cancel() is never cancelled: when
\* its callback is called and the progress stream has room, the record is
\* pushed and the job goes on.
C23_UncancelledJobNeverCancelled ==
    [][\A d \in Devs : \A g \in 1..Len(procs[d]) :
        (/\ Emission(d, g)
         /\ procs[d][g].job \notin SeqSet(cancelled_jobs)
         /\ ~StreamFull(progress)) =>
            (progress' # progress /\ procs'[d][g].pc = "run")]_vars

\* the record on_progress pushes for the process g of device d
Pushed(d, g) == <<procs[d][g].job, d, procs[d][g].step + 1>>

\* C24 as claimed: a call of the progress callback pushes nothing when the
\* cancel flag is set, and exactly one record (job, device, step) when it is
\* clear.
C24_CallbackPushesUnlessCancelled ==
    [][\A d \in Devs : \A g \in 1..Len(procs[d]) :
        Emission(d, g) =>
            IF procs[d][g].cancel
            THEN progress' = progress
            ELSE progress' = Append(progress, Pushed(d, g))]_vars

\* C24, amended: a call of the progress callback with the cancel flag set
\* raises and pushes nothing; with the flag clear and room on the progress
\* stream it pushes exactly one record (job, device, step) under the
\* context's job key and the job goes on; with the flag clear and the stream
\* full it raises at once (it does not wait) and pushes nothing.
C24_CallbackPushesIfRoom ==
    [][\A d \in Devs : \A g \in 1..Len(procs[d]) :
        Emission(d, g) =>
            IF procs[d][g].cancel \/ StreamFull(progress)
            THEN progress' = progress /\ procs'[d][g].pc = "fin"
            ELSE /\ progress' = Append(progress, Pushed(d, g))
                 /\ procs'[d][g].pc = "run"]_vars

\* a callback was called with the flag set: the job has ended at its first
\* call and no record of it was pushed, though the stream had room
C24_Witness ==
    \E d \in Devs : \E g \in 1..Len(procs[d]) :
        /\ procs[d][g].pc = "fin" /\ procs[d][g].cancel /\ procs[d][g].step = 1
        /\ progress = <<>>
        /\ procs[d][g].job \notin DOMAIN active_jobs

\* C25: a call of the progress callback that finds the progress stream full
\* (cancel flag clear) does not end the job: the job goes on running.
C25_FullStreamNotFatal ==
    [][\A d \in Devs : \A g \in 1..Len(procs[d]) :
        (Emission(d, g) /\ ~procs[d][g].cancel /\ StreamFull(progress)) =>
            procs'[d][g].pc = "run"]_vars

\* cancel(k) was just called for a job that reports no progress and has not
\* ended: k is queued, or a live worker is running it
CancelledBeforeEnd(k) ==
    /\ maxSteps = 0
    /\ last.op = "cancel" /\ last.key = k
    /\ \E d \in Devs :
          \/ k \in SeqSet(Pending(d))
          \/ Cur(d).alive /\ Cur(d).pc = "run" /\ Cur(d).job = k

\* C26: a job that never reports progress and whose key was passed to
\* cancel() before it ended runs to its end and gets a finished record with
\* cancelled = true, under fair scheduling.
C26_SilentJobRecordedCancelled ==
    \A k \in Keys :
        [](CancelledBeforeEnd(k) =>
               <>(\E i \in FinishedOf(k) : finished_jobs[i][3] = TRUE))

\* key k is in no pending queue, no worker's context, no stream record, and
\* neither in active_jobs nor in finished_jobs
Nowhere(k) ==
    /\ \A d \in Devs : \A q \in DOMAIN queues[d] : k \notin SeqSet(queues[d][q])
    /\ \A d \in Devs : \A g \in 1..Len(procs[d]) : procs[d][g].job # k
    /\ \A i \in 1..Len(progress) : progress[i][1] # k
    /\ \A i \in 1..Len(finished) : finished[i][1] # k
    /\ k \notin DOMAIN active_jobs
    /\ FinishedOf(k) = {}

\* this step is a submit() that raised queue.Full
Rejecting == last'.op = "submit" /\ last'.res = "Full"

\* C27: a submit() that fails with a full queue keeps what it did before the
\* put: total_jobs of the selected device is one more than before, or 0 with
\* the worker replaced when that count passed the limit; no queue changes,
\* and from then on the rejected key is in no queue, no worker, no stream,
\* not in active_jobs and not in finished_jobs.
C27_RejectedSubmitKeepsCount ==
    [][/\ Rejecting =>
            LET d == last'.dev IN
            /\ queues' = queues
            /\ last'.key \in rejected'
            /\ IF Len(procs'[d]) = Len(procs[d])
               THEN total_jobs'[d] = total_jobs[d] + 1
               ELSE /\ total_jobs'[d] = 0
                    /\ total_jobs[d] + 1 > max_jobs_per_worker \/ ~Cur(d).alive
                    /\ Len(procs'[d]) = Len(procs[d]) + 1
       /\ \A k \in rejected' : Nowhere(k)']_vars

\* a key was rejected, the worker was replaced by that very submit(), and the
\* jobs queued before it have run and left the queues
C27_Witness ==
    \E k \in rejected :
        /\ \A d \in Devs : \A q \in DOMAIN queues[d] : queues[d][q] = <<>>
        /\ \E d \in Devs : Len(procs[d]) > 1 /\ Cur(d).pc = "idle" /\ Cur(d).job \in Keys
        /\ finished_jobs # <<>>
        /\ Nowhere(k)

\* this step is a call of cancel()
Cancelling == last'.op = "cancel"
\* the contexts whose process or flags this step changed
Touched == {c \in {<<d, g>> : d \in Devs, g \in ProcIds} :
               c[2] <= Len(procs[c[1]]) /\ procs'[c[1]][c[2]] # procs[c[1]][c[2]]}
\* this step takes the entry of a cancelled key from the queue q of device d
\* while the progress stream has room for the record of clear_flags
TakesCancelled(d, q) ==
    /\ queues[d][q] # <<>>
    /\ queues'[d][q] = Tail(queues[d][q])
    /\ Head(queues[d][q]) \in SeqSet(cancelled_jobs)
    /\ ~StreamFull(progress)

C29_OrphanStaysActive ==
    [][\A k \in orphans :
        /\ \A i \in 1..Len(finished_jobs') : finished_jobs'[i][1] # k
        /\ k \in DOMAIN active_jobs => k \in DOMAIN active_jobs']_vars

\* the worker of a device died with its job in active_jobs; the worker was
\* replaced, a later job of the device has run on the replacement and is in
\* finished_jobs, and the orphan is still in active_jobs
C29_Witness ==
    \E k \in orphans :
        /\ k \in DOMAIN active_jobs
        /\ LET d == active_jobs[k][1] IN
              /\ Len(procs[d]) > 1 /\ Cur(d).alive /\ Cur(d).pc = "idle"
              /\ Cur(d).job \in Keys
              /\ FinishedOf(Cur(d).job) # {}
        /\ progress = <<>> /\ finished = <<>>

\* the submit() just made replaced the dead worker of device d
Recovered(d) ==
    /\ last.op = "submit" /\ last.dev = d
    /\ total_jobs[d] = 0
    /\ Len(procs[d]) > 1
    /\ ~procs[d][Len(procs[d]) - 1].alive
    /\ Cur(d).alive

\* C30: when a submit() has replaced a dead worker, every job that was
\* queued on the device when the worker died is eventually in finished_jobs,
\* under fair scheduling of the workers and the fans.
C30_QueuedJobsSurviveCrash ==
    \A k \in Keys :
        []((\E d \in Devs : Recovered(d) /\ k \in SeqSet(Pending(d)) /\ k # last.key)
               => <>(FinishedOf(k) # {}))

\* C31: while every device has its entry in self.pending, get_next_device
\* without a pin returns an index of the device list, for every number of
\* devices and every combination of queue depths; a queue depth that the
\* Counter also holds as a key is never returned in place of a device.
C31_UnpinnedIndexValid ==
    (\A d \in Devs : HasQueue(d)) => get_next_device(NoPin) \in DevIdx

\* after a submit(), a queue depth that is no device index is among the
\* Counter's keys of least count, and the index returned is a device's
C31_Witness ==
    /\ last.op = "submit"
    /\ \A d \in Devs : HasQueue(d)
    /\ \E k \in CounterKeys \ DevIdx : CounterCount(k) = lowest_count
    /\ get_next_device(NoPin) \in DevIdx

\* C32 as claimed: total_jobs of a device with a live worker is at most
\* max_jobs_per_worker, and that worker (self.workers[d]) has been handed no
\* more than max_jobs_per_worker + 1 entries of its queue.
C32_WorkerJobsWithinLimit ==
    \A d \in Devs :
        Cur(d).alive =>
            /\ total_jobs[d] <= max_jobs_per_worker
            /\ taken[d][Len(procs[d])] <= max_jobs_per_worker + 1

\* C32, amended: after every step total_jobs of every device is at most
\* max_jobs_per_worker; a submit() counts its job first, so that the count
\* it hands to recycle() is at most max_jobs_per_worker + 1, and when it is
\* above max_jobs_per_worker the worker is replaced and the count is 0.
C32_CountWithinLimit ==
    [][/\ \A d \in Devs : total_jobs'[d] <= max_jobs_per_worker
       /\ Submitted =>
            LET d == last'.dev IN
            /\ total_jobs[d] + 1 <= max_jobs_per_worker + 1
            /\ IF total_jobs[d] + 1 > max_jobs_per_worker \/ ~Cur(d).alive
               THEN Replaced(d) /\ total_jobs'[d] = 0
               ELSE ~Replaced(d) /\ total_jobs'[d] = total_jobs[d] + 1]_vars

\* a submit() failed on a full queue and left the count of its device, whose
\* worker is alive, at max_jobs_per_worker
C32_Witness ==
    /\ last.op = "submit" /\ last.res = "Full"
    /\ Cur(last.dev).alive
    /\ total_jobs[last.dev] = max_jobs_per_worker

\* C33: once join() has returned, a submit() starts no worker process, puts
\* no Queue in self.pending and queues no job.
C33_JoinedPoolStaysDown ==
    [][(Closed /\ last'.op = "submit") =>
        /\ \A d \in Devs : Len(procs'[d]) = Len(procs[d])
        /\ \A d \in Devs : ~HasQueue(d) => pendingRef'[d] = NoQ
        /\ queues' = queues]_vars

====
